---- MODULE Spec2Model ----
(***************************************************************************)
(* Model of the windowed SFTP download of src/plugins/web/ftp.py:          *)
(* SFTPFileDownloader.download(), _sftp_async_read_request(),              *)
(* _async_response() and _check_exception(), their caller                  *)
(* SFTPPlugin.download_large_file(), together with the part of             *)
(* paramiko's SFTPClient they drive (request_number, _expecting,           *)
(* _read_response, _convert_status).                                       *)
(*                                                                         *)
(* The download thread is modelled statement by statement (pc).  The       *)
(* server is faithful about content: a DATA response to a read of          *)
(* (offset, size) carries the file's bytes from offset, but it may be      *)
(* shorter than size; it may also answer with a STATUS packet or with a    *)
(* packet of another type.  Responses to outstanding requests arrive in    *)
(* any order.                                                              *)
(*                                                                         *)
(* Spec       : responses are delivered only by download()'s own call of   *)
(*              sftp._read_response().                                     *)
(* SpecShared : the SFTPClient is shared; another thread sitting in        *)
(*              _read_response() may read a packet addressed to this       *)
(*              download and run _async_response() on its own thread, and  *)
(*              packets of other users reach download()'s _read_response.  *)
(*              The downloader is followed until download() leaves.        *)
(* SpecIds    : other users of the client take request numbers between     *)
(*              this download's requests.                                  *)
(* SpecLarge  : download_large_file around download(), with the remote     *)
(*              size it reads before the transfer independent of the size  *)
(*              download() reads.                                          *)
(* SpecCancel : a caller signals cancellation during the transfer.         *)
(* SpecDup    : _async_response is called a second time with a DATA        *)
(*              response that already resolved its request.                *)
(* SpecLive   : every request is answered with the data asked for; with    *)
(*              fairness, for the progress of the download.                *)
(* SpecHttp   : DownloaderPlugin.download of src/plugins/web/downloader.py, *)
(*              the sequential download with resume and a bound on tries.  *)
(* SpecGame   : Game.play of src/games/tic_tac_toe with two RandomPlayers. *)
(*                                                                         *)
(* The three programs do not interact; in a specification of one of them   *)
(* the variables of the other two keep their initial values.               *)
(*                                                                         *)
(* download() never looks at the bytes it moves, only at their number.     *)
(* Spec draws the content from all sequences over Bytes; SpecShared uses   *)
(* the content whose bytes are all different, on which any misplaced,      *)
(* missing or repeated byte shows.                                         *)
(***************************************************************************)
EXTENDS Integers, Sequences, FiniteSets, TLC

\* ------------------------------------------------------------ bounds
MaxFileSize == 4
MaxChunk == 2
MaxWindow == 2
MaxByte == 1
MaxForeign == 1
MaxOtherReads == 2
MaxDups == 1
MaxTries == 3
MaxContent == 3

\* game.py:10-14, the board is 3 by 3
BoardSize == 3

Bytes == 0..MaxByte

\* ------------------------------------------------------------ state
VARIABLES
    DOWNLOAD_MAX_REQUESTS,    \* ftp.py:125, the window (48 in the source)
    DOWNLOAD_MAX_CHUNK_SIZE,  \* ftp.py:126, the chunk length (0x8000)
    file,                     \* the remote file's content, a sequence of bytes
    file_size,                \* ftp.py:138
    requested_size,           \* ftp.py:139
    received_size,            \* ftp.py:140
    requested_chunks,         \* ftp.py:133, dict num -> (offset, size): set of <<num, offset, size>>
    received_chunks,          \* ftp.py:134, dict offset -> (offset, size, data): set of <<offset, size, data>>
    saved_exception,          \* ftp.py:135, None or the exception
    request_id,               \* ftp.py:146, local of download()
    chunk_size,               \* ftp.py:145, local of download()
    pc,                       \* position of the download thread
    raised,                   \* the exception download() raised, None if none
    f_out,                    \* the bytes written to f_out, in order
    callback_calls,           \* the arguments of the calls of self.callback, in order, each with
                              \* its Python type: <<"bytes", data>> or <<"int", n>>
    issued,                   \* the (offset, size) of the read requests issued, in order
    arrived,                  \* the offsets of the chunks stored in received_chunks, in order
    written,                  \* the (offset, size) of the chunks written to f_out, in order
    request_number,           \* sftp_client.request_number
    expecting,                \* the keys of sftp_client._expecting that map to this downloader
    wire,                     \* CMD_READ packets sent and not yet answered: set of <<num, offset, size>>
    foreign,                  \* the request numbers other users of the client have taken
    opc,                      \* position of the other thread inside _read_response
    oreads,                   \* packets of this download the other thread has read
    omsg,                     \* the response the other thread is dispatching
    ochunk,                   \* the other thread's chunk_data (ftp.py:207)
    unmatched,                \* <<num, t>> of the responses handed to _async_response whose num was
                              \* not a key of requested_chunks at the call
    mismatched,               \* the nums answered by a DATA packet whose length is not the length asked for
    first_error,              \* the exception converted from the first error status handed to
                              \* _async_response, None if there was none
    oraised,                  \* exceptions _async_response raised on the other thread
    resolved,                 \* the DATA responses that resolved a pending request with the length asked for
    ids,                      \* the request numbers this download's requests received, in order
    remote_file_size,         \* ftp.py:79, the size download_large_file reads before the transfer
    lpc,                      \* position of download_large_file
    f_in_open,                \* ftp.py:81, the remote file handle is open
    f_out_open,               \* ftp.py:82, the output file is open
    lraised,                  \* the exception download_large_file raised, None if none
    cancel_signalled,         \* a caller has asked for the transfer to be cancelled
    dups,                     \* second copies of resolved responses handed to _async_response
    hpc,                      \* downloader.py: position of DownloaderPlugin.download
    max_tries,                \* downloader.py:32
    resource_size,            \* the length of the resource behind url
    total_size_in_bytes,      \* downloader.py:50, the Content-length header, 0 if absent
    tries,                    \* downloader.py:57, the local t
    total_downloaded,         \* downloader.py:58
    local_exists,             \* the local file exists
    local_size,               \* the size of the local file, 0 if it does not exist
    mode,                     \* downloader.py:62, 64, 70
    response,                 \* downloader.py:47, 67, 73: <<status_code, length of the body>>
    attempts,                 \* the times the body of a response was written (downloader.py:75-79)
    hresult,                  \* what download() returned or raised, "" while it runs
    board,                    \* game.py:10, the cells 0..8 row by row
    is_x_turn,                \* game.py:15
    gpc,                      \* position of Game.play
    winner,                   \* game.py:73: "X", "O", "True" or "False", "" before the first test
    turn,                     \* game.py:75, 78
    nmoves                    \* the calls of make_turn so far

vars == <<DOWNLOAD_MAX_REQUESTS, DOWNLOAD_MAX_CHUNK_SIZE, file, file_size,
          requested_size, received_size, requested_chunks, received_chunks,
          saved_exception, request_id, chunk_size, pc, raised, f_out,
          callback_calls, issued, arrived, written, request_number,
          expecting, wire, foreign, opc, oreads, omsg, ochunk, oraised,
          unmatched, mismatched, first_error, resolved, ids,
          remote_file_size, lpc, f_in_open, f_out_open, lraised,
          cancel_signalled, dups,
          hpc, max_tries, resource_size, total_size_in_bytes, tries,
          total_downloaded, local_exists, local_size, mode, response,
          attempts, hresult,
          board, is_x_turn, gpc, winner, turn, nmoves>>

config == <<DOWNLOAD_MAX_REQUESTS, DOWNLOAD_MAX_CHUNK_SIZE, file, file_size>>
other == <<opc, oreads, omsg, ochunk, oraised, foreign>>
handled == <<unmatched, mismatched, first_error, resolved>>
caller == <<remote_file_size, lpc, f_in_open, f_out_open, lraised,
            cancel_signalled, dups>>

http == <<hpc, max_tries, resource_size, total_size_in_bytes, tries,
          total_downloaded, local_exists, local_size, mode, response,
          attempts, hresult>>
game == <<board, is_x_turn, gpc, winner, turn, nmoves>>

None == << >>

\* ------------------------------------------------------------ helpers
Min(a, b) == IF a < b THEN a ELSE b

\* dict.pop(key, None) and dict[key] = value on a dict held as a set of
\* tuples whose first component is the key
Lookup(d, k) == IF \E e \in d : e[1] = k THEN CHOOSE e \in d : e[1] = k ELSE None
Without(d, k) == {e \in d : e[1] # k}
Store(d, e) == Without(d, e[1]) \cup {e}

\* the bytes a faithful server returns for a read of len bytes at offset:
\* the file's bytes from offset, as many as there are
Payload(offset, len) == SubSeq(file, offset + 1, Min(offset + len, Len(file)))

\* paramiko.SFTPClient._convert_status (called at ftp.py:199): the exception
\* a status code converts to, None for SFTP_OK.  SFTP_NO_SUCH_FILE and
\* SFTP_PERMISSION_DENIED convert to an IOError like SFTP_FAILURE does.
StatusCodes == {"SFTP_OK", "SFTP_EOF", "SFTP_FAILURE"}
_convert_status(code, num) ==
    CASE code = "SFTP_OK" -> None
      [] code = "SFTP_EOF" -> <<"EOFError", code, num>>
      [] OTHER -> <<"IOError", code, num>>

\* the responses a server may give to the request packet w = <<num, offset, size>>:
\* the data asked for, less of it, more of it, a status, or another packet type
Responses(w) ==
    {<<w[1], "CMD_DATA", Payload(w[2], n)>> : n \in 0..(w[3] + 1)}
    \cup {<<w[1], "CMD_STATUS", c>> : c \in StatusCodes}
    \cup {<<w[1], "CMD_NAME", << >> >>}

\* ------------------------------------------------------------ initial state
\* ftp.py:128-140: the downloader after construction and the first three
\* statements of download(), for every window, chunk length and file size
\* within the bounds
InitDownloader ==
    /\ DOWNLOAD_MAX_REQUESTS \in 1..MaxWindow
    /\ DOWNLOAD_MAX_CHUNK_SIZE \in 1..MaxChunk
    /\ file_size \in 0..MaxFileSize
    /\ requested_size = 0
    /\ received_size = 0
    /\ requested_chunks = {}
    /\ received_chunks = {}
    /\ saved_exception = None
    /\ request_id = 0
    /\ chunk_size = 0
    /\ pc = "dispatch"
    /\ raised = None
    /\ f_out = << >>
    /\ callback_calls = << >>
    /\ issued = << >>
    /\ arrived = << >>
    /\ written = << >>
    /\ request_number = 1
    /\ expecting = {}
    /\ wire = {}
    /\ foreign = {}
    /\ opc = "idle"
    /\ oreads = 0
    /\ omsg = None
    /\ ochunk = None
    /\ unmatched = {}
    /\ mismatched = {}
    /\ first_error = None
    /\ oraised = {}
    /\ resolved = {}
    /\ ids = << >>
    /\ lpc = "with"
    /\ f_in_open = TRUE
    /\ f_out_open = TRUE
    /\ lraised = None
    /\ cancel_signalled = FALSE
    /\ dups = 0

\* downloader.py: DownloaderPlugin.download has not been called
HttpIdle ==
    /\ hpc = "idle"
    /\ max_tries = 0
    /\ resource_size = 0
    /\ total_size_in_bytes = 0
    /\ tries = 0
    /\ total_downloaded = 0
    /\ local_exists = FALSE
    /\ local_size = 0
    /\ mode = ""
    /\ response = <<0, 0>>
    /\ attempts = 0
    /\ hresult = ""

\* game.py:9-17, Game.__init__
GameConstructed ==
    /\ board = [c \in 0..(BoardSize * BoardSize - 1) |-> " "]
    /\ is_x_turn = TRUE
    /\ winner = ""
    /\ turn = 0
    /\ nmoves = 0

\* Game.play has not been called
GameIdle == GameConstructed /\ gpc = "idle"

\* every content over Bytes; ftp.py:79 and 138: the size download_large_file
\* reads with stat() is the size download() reads from the open file
Init ==
    /\ InitDownloader
    /\ file \in [1..file_size -> Bytes]
    /\ remote_file_size = file_size
    /\ HttpIdle
    /\ GameIdle

\* ------------------------------------------------------------ download()
\* mutant of WindowOpen: only the unresolved requests count against the window
WindowOpen_InFlightOnly ==
    /\ Cardinality(requested_chunks) < DOWNLOAD_MAX_REQUESTS
    /\ requested_size < file_size

\* mutant of WindowOpen: <= for <
WindowOpen_Inclusive ==
    /\ Cardinality(requested_chunks) + Cardinality(received_chunks) <= DOWNLOAD_MAX_REQUESTS
    /\ requested_size < file_size

\* ftp.py:143-144, the condition of the inner dispatch loop
WindowOpen ==
    /\ Cardinality(requested_chunks) + Cardinality(received_chunks) < DOWNLOAD_MAX_REQUESTS
    /\ requested_size < file_size

\* mutant of NextChunkSize: the chunk length, not the minimum with what is left
NextChunkSize_NoMin == DOWNLOAD_MAX_CHUNK_SIZE

\* ftp.py:145
NextChunkSize == Min(DOWNLOAD_MAX_CHUNK_SIZE, file_size - requested_size)

\* mutant of Dispatch: request_number is not incremented
Dispatch_NoIncrement ==
    /\ pc = "dispatch"
    /\ WindowOpen
    /\ chunk_size' = NextChunkSize
    /\ request_id' = request_number
    /\ expecting' = expecting \cup {request_number}
    /\ request_number' = request_number
    /\ ids' = Append(ids, request_number)
    /\ pc' = "send"
    /\ UNCHANGED <<config, http, game, caller, arrived, written, requested_size, received_size, requested_chunks,
                   received_chunks, saved_exception, raised, f_out,
                   callback_calls, issued, wire, other, handled>>

\* ftp.py:143-145 and 181-191: the loop condition holds, the chunk size is
\* computed and _sftp_async_read_request takes the next request number and
\* registers this downloader in sftp_client._expecting, under the client's lock
Dispatch ==
    /\ pc = "dispatch"
    /\ WindowOpen
    /\ chunk_size' = NextChunkSize
    /\ request_id' = request_number
    /\ expecting' = expecting \cup {request_number}
    /\ request_number' = request_number + 1
    /\ ids' = Append(ids, request_number)
    /\ pc' = "send"
    /\ UNCHANGED <<config, http, game, caller, arrived, written, requested_size, received_size, requested_chunks,
                   received_chunks, saved_exception, raised, f_out,
                   callback_calls, issued, wire, other, handled>>

\* ftp.py:193-194: the CMD_READ packet is sent, the number returned
Send ==
    /\ pc = "send"
    /\ wire' = wire \cup {<<request_id, requested_size, chunk_size>>}
    /\ issued' = Append(issued, <<requested_size, chunk_size>>)
    /\ pc' = "record"
    /\ UNCHANGED <<config, http, game, caller, ids, arrived, written, requested_size, received_size, requested_chunks,
                   received_chunks, saved_exception, request_id, chunk_size,
                   raised, f_out, callback_calls, request_number, expecting,
                   other, handled>>

\* mutant of Record: requested_size is not advanced
Record_NoAdvance ==
    /\ pc = "record"
    /\ requested_chunks' = Store(requested_chunks, <<request_id, requested_size, chunk_size>>)
    /\ requested_size' = requested_size
    /\ pc' = "dispatch"
    /\ UNCHANGED <<config, http, game, caller, ids, arrived, written, received_size, received_chunks,
                   saved_exception, request_id, chunk_size, raised, f_out,
                   callback_calls, issued, request_number, expecting, wire,
                   other, handled>>

\* ftp.py:152-153
Record ==
    /\ pc = "record"
    /\ requested_chunks' = Store(requested_chunks, <<request_id, requested_size, chunk_size>>)
    /\ requested_size' = requested_size + chunk_size
    /\ pc' = "dispatch"
    /\ UNCHANGED <<config, http, game, caller, ids, arrived, written, received_size, received_chunks, saved_exception,
                   request_id, chunk_size, raised, f_out, callback_calls,
                   issued, request_number, expecting, wire, other, handled>>

\* ftp.py:143-144: the loop condition fails, download() goes on to read
DispatchDone ==
    /\ pc = "dispatch"
    /\ ~WindowOpen
    /\ pc' = "read"
    /\ UNCHANGED <<config, http, game, caller, ids, arrived, written, requested_size, received_size, requested_chunks,
                   received_chunks, saved_exception, request_id, chunk_size,
                   raised, f_out, callback_calls, issued, request_number,
                   expecting, wire, other, handled>>

\* ------------------------------------------------------------ _async_response
\* ftp.py:196-216 as one call: the dicts and saved_exception after the call,
\* the exception the call raises (None if it returns), and whether it
\* returned at line 209 without a match.  r = <<num, t, msg>>.
SFTPError(text, num) == <<"SFTPError", text, num>>

\* mutant of SizeMatches: a short payload is accepted
SizeMatches_Lenient(size, data) == Len(data) <= size

\* ftp.py:214
SizeMatches(size, data) == size = Len(data)

\* mutant of _async_response: requested_chunks.pop(num) without a default,
\* which raises KeyError for a num that is not pending
_async_response_PopStrict(r) ==
    LET num == r[1]
        t == r[2]
        msg == r[3]
        same == [requested |-> requested_chunks, received |-> received_chunks,
                 saved |-> saved_exception, exc |-> None, unmatched |-> FALSE]
        chunk_data == Lookup(requested_chunks, num)
    IN  IF t = "CMD_STATUS"
        THEN IF _convert_status(msg, num) # None
             THEN [same EXCEPT !.saved = _convert_status(msg, num)]
             ELSE same
        ELSE IF t # "CMD_DATA"
        THEN [same EXCEPT !.exc = SFTPError("Expected data", num)]
        ELSE IF chunk_data = None
        THEN [same EXCEPT !.exc = <<"KeyError", "", num>>]
        ELSE IF ~SizeMatches(chunk_data[3], msg)
        THEN [same EXCEPT !.requested = Without(requested_chunks, num),
                          !.exc = SFTPError("Invalid data block size", num)]
        ELSE [same EXCEPT !.requested = Without(requested_chunks, num),
                          !.received = Store(received_chunks,
                                             <<chunk_data[2], chunk_data[3], msg>>)]

_async_response(r) ==
    LET num == r[1]
        t == r[2]
        msg == r[3]
        same == [requested |-> requested_chunks, received |-> received_chunks,
                 saved |-> saved_exception, exc |-> None, unmatched |-> FALSE]
        chunk_data == Lookup(requested_chunks, num)
    IN  IF t = "CMD_STATUS"
        THEN IF _convert_status(msg, num) # None
             THEN [same EXCEPT !.saved = _convert_status(msg, num)]
             ELSE same
        ELSE IF t # "CMD_DATA"
        THEN [same EXCEPT !.exc = SFTPError("Expected data", num)]
        ELSE IF chunk_data = None
        THEN [same EXCEPT !.unmatched = TRUE]
        ELSE IF ~SizeMatches(chunk_data[3], msg)
        THEN [same EXCEPT !.requested = Without(requested_chunks, num),
                          !.exc = SFTPError("Invalid data block size", num)]
        ELSE [same EXCEPT !.requested = Without(requested_chunks, num),
                          !.received = Store(received_chunks,
                                             <<chunk_data[2], chunk_data[3], msg>>)]

\* what a call of _async_response with the response r to the packet w adds to
\* the history
Handled(w, r) ==
    /\ unmatched' = IF Lookup(requested_chunks, r[1]) = None
                    THEN unmatched \cup {<<r[1], r[2]>>}
                    ELSE unmatched
    /\ mismatched' = IF r[2] = "CMD_DATA" /\ Len(r[3]) # w[3]
                     THEN mismatched \cup {r[1]}
                     ELSE mismatched
    /\ first_error' = IF /\ first_error = None
                         /\ r[2] = "CMD_STATUS"
                         /\ r[3] # "SFTP_OK"
                      THEN <<IF r[3] = "SFTP_EOF" THEN "EOFError" ELSE "IOError", r[3], r[1]>>
                      ELSE first_error
    /\ resolved' = IF /\ r[2] = "CMD_DATA"
                      /\ Lookup(requested_chunks, r[1]) # None
                      /\ Len(r[3]) = w[3]
                   THEN resolved \cup {r}
                   ELSE resolved

\* ftp.py:155: sftp._read_response() reads one packet; the number is in
\* _expecting, is deleted from it, and _async_response runs on the download
\* thread; an exception it raises leaves download()
ReadResponse ==
    /\ pc = "read"
    /\ \E w \in wire : \E r \in Responses(w) :
        LET res == _async_response(r) IN
        /\ wire' = wire \ {w}
        /\ expecting' = expecting \ {r[1]}
        /\ requested_chunks' = res.requested
        /\ received_chunks' = res.received
        /\ saved_exception' = res.saved
        /\ Handled(w, r)
        /\ arrived' = IF res.received # received_chunks
                      THEN Append(arrived, Lookup(requested_chunks, r[1])[2])
                      ELSE arrived
        /\ raised' = res.exc
        /\ pc' = IF res.exc # None THEN "raised" ELSE "check"
    /\ UNCHANGED <<config, http, game, caller, ids, written, requested_size, received_size, request_id,
                   chunk_size, f_out, callback_calls, issued, request_number,
                   other>>

\* ftp.py:156 and 218-222, _check_exception
Check ==
    /\ pc = "check"
    /\ IF saved_exception # None
       THEN /\ raised' = saved_exception
            /\ saved_exception' = None
            /\ pc' = "raised"
       ELSE /\ pc' = "drain"
            /\ UNCHANGED <<raised, saved_exception>>
    /\ UNCHANGED <<config, http, game, caller, ids, arrived, written, requested_size, received_size, requested_chunks,
                   received_chunks, request_id, chunk_size, f_out,
                   callback_calls, issued, request_number, expecting, wire,
                   other, handled>>

\* mutant of DrainKey: the drain loop pops at requested_size
DrainKey_Requested == requested_size

\* mutant of DrainKey: the drain loop pops whatever chunk is buffered
DrainKey_Buffered ==
    IF received_chunks # {}
    THEN (CHOOSE e \in received_chunks : TRUE)[1]
    ELSE received_size

\* ftp.py:159, the key the drain loop pops
DrainKey == received_size

\* ftp.py:158-167, one iteration of the drain loop
Drain ==
    /\ pc = "drain"
    /\ LET chunk == Lookup(received_chunks, DrainKey) IN
       IF chunk = None
       THEN /\ pc' = "test"
            /\ UNCHANGED <<received_chunks, f_out, callback_calls, received_size,
                           chunk_size, written>>
       ELSE /\ received_chunks' = Without(received_chunks, DrainKey)
            /\ chunk_size' = chunk[2]
            /\ f_out' = f_out \o chunk[3]
            /\ written' = Append(written, <<chunk[1], chunk[2]>>)
            /\ callback_calls' = Append(callback_calls, <<"bytes", chunk[3]>>)
            /\ received_size' = received_size + chunk[2]
            /\ pc' = "drain"
    /\ UNCHANGED <<config, http, game, caller, ids, arrived, requested_size, requested_chunks, saved_exception,
                   request_id, raised, issued, request_number,
                   expecting, wire, other, handled>>

\* mutant of Complete: > for >=
Complete_Strict == received_size > file_size

\* mutant of Complete: the loop ends when everything is requested
Complete_Requested == requested_size >= file_size

\* ftp.py:169
Complete == received_size >= file_size

\* ftp.py:172
QueueStuck ==
    /\ requested_chunks = {}
    /\ Cardinality(received_chunks) >= DOWNLOAD_MAX_REQUESTS

\* ftp.py:169-176
Test ==
    /\ pc = "test"
    /\ IF Complete
       THEN pc' = "done" /\ UNCHANGED raised
       ELSE IF QueueStuck
       THEN pc' = "raised" /\ raised' = <<"ValueError", "SFTP communication error", 0>>
       ELSE pc' = "dispatch" /\ UNCHANGED raised
    /\ UNCHANGED <<config, http, game, caller, ids, arrived, written, requested_size, received_size, requested_chunks,
                   received_chunks, saved_exception, request_id, chunk_size,
                   f_out, callback_calls, issued, request_number, expecting,
                   wire, other, handled>>

\* ------------------------------------------------------------ download_large_file()
\* everything download() and the client hold
download_state == <<requested_size, received_size, requested_chunks,
                    received_chunks, saved_exception, request_id, chunk_size,
                    pc, raised, f_out, callback_calls, issued, arrived,
                    written, request_number, expecting, wire, ids>>

\* mutant of CloseFiles: the files are closed by statements after the call
\* of download(), which an exception skips
CloseFiles_AfterCall ==
    /\ lpc = "with"
    /\ pc \in {"done", "raised"}
    /\ IF pc = "raised"
       THEN /\ lraised' = raised
            /\ lpc' = "raised"
            /\ UNCHANGED <<f_in_open, f_out_open>>
       ELSE /\ lpc' = "compare"
            /\ f_out_open' = FALSE
            /\ f_in_open' = FALSE
            /\ UNCHANGED lraised
    /\ UNCHANGED <<config, http, game, remote_file_size, cancel_signalled, dups,
                   download_state, other, handled>>

\* ftp.py:81-86: download() has left the body of the with statement, by
\* returning or by raising; the with statement closes f_out and f_in, and an
\* exception goes on to the caller of download_large_file
CloseFiles ==
    /\ lpc = "with"
    /\ pc \in {"done", "raised"}
    /\ f_out_open' = FALSE
    /\ f_in_open' = FALSE
    /\ IF pc = "raised"
       THEN /\ lraised' = raised
            /\ lpc' = "raised"
       ELSE /\ lpc' = "compare"
            /\ UNCHANGED lraised
    /\ UNCHANGED <<config, http, game, remote_file_size, cancel_signalled, dups,
                   download_state, other, handled>>

\* ftp.py:88-90: the size of the local file is compared with the size read
\* before the transfer
CompareSizes ==
    /\ lpc = "compare"
    /\ IF remote_file_size # Len(f_out)
       THEN /\ lraised' = <<"IOError", "file size mismatch", 0>>
            /\ lpc' = "raised"
       ELSE /\ lpc' = "returned"
            /\ UNCHANGED lraised
    /\ UNCHANGED <<config, http, game, remote_file_size, f_in_open, f_out_open,
                   cancel_signalled, dups, download_state, other, handled>>

Next ==
    \/ Dispatch \/ Send \/ Record \/ DispatchDone \/ ReadResponse \/ Check \/ Drain \/ Test
    \/ CloseFiles \/ CompareSizes

Spec == Init /\ [][Next]_vars

\* ------------------------------------------------------------ shared client
\* The SFTPClient is shared: another thread is inside _read_response (for
\* instance in SFTPClient._request, waiting for its own reply).  It reads a
\* packet addressed to this download, deletes the number from _expecting and
\* calls this downloader's _async_response on its own thread.  The read, the
\* delete and the call up to and including the pop of ftp.py:207 are one step;
\* the store of ftp.py:212-216 is a second step.
OtherRead ==
    /\ opc = "idle"
    /\ pc \notin {"done", "raised"}
    /\ oreads < MaxOtherReads
    /\ oreads' = oreads + 1
    /\ \E w \in wire : \E r \in Responses(w) :
        LET num == r[1]
            chunk_data == Lookup(requested_chunks, num)
        IN
        /\ wire' = wire \ {w}
        /\ expecting' = expecting \ {num}
        /\ Handled(w, r)
        /\ IF r[2] = "CMD_STATUS"
           THEN /\ saved_exception' = IF _convert_status(r[3], num) # None
                                      THEN _convert_status(r[3], num)
                                      ELSE saved_exception
                /\ UNCHANGED <<requested_chunks, opc, omsg, ochunk, oraised>>
           ELSE IF r[2] # "CMD_DATA"
           THEN /\ oraised' = oraised \cup {SFTPError("Expected data", num)}
                /\ UNCHANGED <<requested_chunks, saved_exception, opc, omsg, ochunk>>
           ELSE IF chunk_data = None
           THEN UNCHANGED <<requested_chunks, saved_exception, opc, omsg, ochunk, oraised>>
           ELSE /\ requested_chunks' = Without(requested_chunks, num)
                /\ ochunk' = chunk_data
                /\ omsg' = r
                /\ opc' = "store"
                /\ UNCHANGED <<saved_exception, oraised>>
    /\ UNCHANGED <<config, http, game, caller, ids, arrived, written, requested_size, received_size, received_chunks,
                   request_id, chunk_size, pc, raised, f_out, callback_calls,
                   issued, request_number, foreign>>

\* ftp.py:212-216 on the other thread
OtherStore ==
    /\ opc = "store"
    /\ IF ~SizeMatches(ochunk[3], omsg[3])
       THEN /\ oraised' = oraised \cup {SFTPError("Invalid data block size", omsg[1])}
            /\ UNCHANGED <<received_chunks, arrived>>
       ELSE /\ received_chunks' = Store(received_chunks, <<ochunk[2], ochunk[3], omsg[3]>>)
            /\ arrived' = Append(arrived, ochunk[2])
            /\ UNCHANGED oraised
    /\ opc' = "idle"
    /\ UNCHANGED oreads
    /\ omsg' = None
    /\ ochunk' = None
    /\ UNCHANGED <<config, http, game, caller, ids, written, requested_size, received_size, requested_chunks,
                   saved_exception, request_id, chunk_size, pc, raised, f_out,
                   callback_calls, issued, request_number, expecting, wire,
                   foreign, handled>>

\* another user of the client issues a request (SFTPClient._async_request):
\* it takes the next request number under the client's lock
ForeignRequest ==
    /\ Cardinality(foreign) < MaxForeign
    /\ pc \notin {"done", "raised"}
    /\ foreign' = foreign \cup {request_number}
    /\ request_number' = request_number + 1
    /\ UNCHANGED <<config, http, game, caller, ids, arrived, written, requested_size, received_size, requested_chunks,
                   received_chunks, saved_exception, request_id, chunk_size,
                   pc, raised, f_out, callback_calls, issued, expecting, wire,
                   opc, oreads, omsg, ochunk, handled, oraised>>

\* ftp.py:155: the packet download()'s _read_response reads belongs to
\* another user of the client; nothing of this download is called
ReadForeign ==
    /\ pc = "read"
    /\ pc' = "check"
    /\ UNCHANGED <<config, http, game, caller, ids, arrived, written, requested_size, received_size, requested_chunks,
                   received_chunks, saved_exception, request_id, chunk_size,
                   raised, f_out, callback_calls, issued, request_number,
                   expecting, wire, foreign, opc, oreads, omsg, ochunk, handled, oraised>>

NextShared ==
    \/ Next
    \/ OtherRead \/ OtherStore \/ ReadForeign

\* the content whose bytes are all different: byte i is i
InitShared ==
    /\ InitDownloader
    /\ file = [i \in 1..file_size |-> i]
    /\ remote_file_size = file_size
    /\ HttpIdle
    /\ GameIdle

SpecShared == InitShared /\ [][NextShared]_vars

NextIds == Next \/ ForeignRequest

SpecIds == InitShared /\ [][NextIds]_vars

\* ------------------------------------------------------------ changing remote file
\* ftp.py:79 and 138: download_large_file reads the remote size with
\* sftp.stat() before it opens the file, download() reads it again from the
\* open file; the remote file may have changed in between, so the two sizes
\* are independent
InitLarge ==
    /\ InitDownloader
    /\ file = [i \in 1..file_size |-> i]
    /\ remote_file_size \in 0..MaxFileSize
    /\ HttpIdle
    /\ GameIdle

SpecLarge == InitLarge /\ [][Next]_vars

\* ------------------------------------------------------------ cancellation
\* A caller signals cancellation while requests are in flight and chunks are
\* buffered unwritten.  The signal is the caller's: neither
\* SFTPFileDownloader.__init__ (ftp.py:128-135) nor download() (ftp.py:137-176)
\* takes or reads one, so no action of the download depends on
\* cancel_signalled.
Cancel ==
    /\ ~cancel_signalled
    /\ pc \notin {"done", "raised"}
    /\ requested_chunks # {}
    /\ received_chunks # {}
    /\ cancel_signalled' = TRUE
    /\ UNCHANGED <<config, http, game, remote_file_size, lpc, f_in_open, f_out_open, lraised,
                   dups, download_state, other, handled>>

NextCancel == Next \/ Cancel

SpecCancel == InitShared /\ [][NextCancel]_vars

\* ------------------------------------------------------------ answering server
\* ftp.py:155 with a server that answers every read request with a DATA
\* packet of the length asked for: _read_response reads the response to one
\* of the outstanding requests, in any order, and _async_response runs on the
\* download thread
ReadData ==
    /\ pc = "read"
    /\ \E w \in wire :
        LET r == <<w[1], "CMD_DATA", Payload(w[2], w[3])>>
            res == _async_response(r) IN
        /\ wire' = wire \ {w}
        /\ expecting' = expecting \ {r[1]}
        /\ requested_chunks' = res.requested
        /\ received_chunks' = res.received
        /\ saved_exception' = res.saved
        /\ Handled(w, r)
        /\ arrived' = IF res.received # received_chunks
                      THEN Append(arrived, Lookup(requested_chunks, r[1])[2])
                      ELSE arrived
        /\ raised' = res.exc
        /\ pc' = IF res.exc # None THEN "raised" ELSE "check"
    /\ UNCHANGED <<config, http, game, caller, ids, written, requested_size, received_size, request_id,
                   chunk_size, f_out, callback_calls, issued, request_number,
                   other>>

\* the statements of download() that do not wait
Running == Dispatch \/ Send \/ Record \/ DispatchDone \/ Check \/ Drain \/ Test

NextLive ==
    \/ Dispatch \/ Send \/ Record \/ DispatchDone \/ Check \/ Drain \/ Test
    \/ ReadData \/ ReadForeign
    \/ CloseFiles \/ CompareSizes

\* the download thread keeps running, and every request issued is eventually
\* answered: a read that waits again and again with a request outstanding
\* eventually gets a response to one of them, however many packets of other
\* users it reads in between
SpecLive ==
    /\ InitShared
    /\ [][NextLive]_vars
    /\ WF_vars(Running)
    /\ SF_vars(ReadData)

\* ------------------------------------------------------------ repeated response
\* ftp.py:196-216 called a second time with a DATA response that has already
\* resolved its request: _async_response is handed a copy of a response in
\* resolved, on the download thread, where _read_response would have called it
Redeliver ==
    /\ pc = "read"
    /\ dups < MaxDups
    /\ \E r \in resolved :
        LET res == _async_response(r) IN
        /\ requested_chunks' = res.requested
        /\ received_chunks' = res.received
        /\ saved_exception' = res.saved
        /\ unmatched' = IF Lookup(requested_chunks, r[1]) = None
                        THEN unmatched \cup {<<r[1], r[2]>>}
                        ELSE unmatched
        /\ arrived' = IF res.received # received_chunks
                      THEN Append(arrived, Lookup(requested_chunks, r[1])[2])
                      ELSE arrived
        /\ raised' = res.exc
        /\ pc' = IF res.exc # None THEN "raised" ELSE "check"
    /\ dups' = dups + 1
    /\ UNCHANGED <<config, http, game, remote_file_size, lpc, f_in_open, f_out_open, lraised,
                   cancel_signalled, ids, written, requested_size, received_size,
                   request_id, chunk_size, f_out, callback_calls, issued,
                   request_number, expecting, wire, other, mismatched,
                   first_error, resolved>>

NextDup == Next \/ Redeliver

SpecDup == InitShared /\ [][NextDup]_vars

\* ------------------------------------------------------------ DownloaderPlugin.download
\* src/plugins/web/downloader.py.  The server holds a resource of
\* resource_size bytes and announces its length in Content-length, or sends
\* no such header.  A response body may end early: iterating it yields any
\* number of bytes up to its length.  A ranged request gets 206 with the rest
\* of the resource, 416 when the range starts at or after the end, or 200
\* with the whole resource from a server that ignores Range.
sftp == <<config, caller, download_state, other, handled>>

\* the SFTP downloader stays as constructed, for an empty file
SftpIdle ==
    /\ InitDownloader
    /\ DOWNLOAD_MAX_REQUESTS = 1
    /\ DOWNLOAD_MAX_CHUNK_SIZE = 1
    /\ file_size = 0
    /\ file = << >>
    /\ remote_file_size = 0

\* downloader.py:31-32: the call, for every max_tries, resource, header and
\* local file within the bounds
InitHttp ==
    /\ SftpIdle
    /\ GameIdle
    /\ hpc = "check"
    /\ max_tries \in 0..MaxTries
    /\ resource_size \in 0..MaxContent
    /\ total_size_in_bytes \in {resource_size, 0}
    /\ local_exists \in BOOLEAN
    /\ local_size \in (IF local_exists THEN 0..MaxContent ELSE {0})
    /\ tries = 0
    /\ total_downloaded = 0
    /\ mode = ""
    /\ response = <<0, 0>>
    /\ attempts = 0
    /\ hresult = ""

\* downloader.py:12-28 and 43-45, check_already_downloaded with
\* delete_previous=True; the HEAD request reports the same Content-length
CheckAlreadyDownloaded ==
    /\ hpc = "check"
    /\ IF ~local_exists
       THEN /\ hpc' = "get"
            /\ UNCHANGED <<local_exists, local_size, hresult>>
       ELSE IF total_size_in_bytes # local_size
       THEN /\ local_exists' = FALSE
            /\ local_size' = 0
            /\ hpc' = "get"
            /\ UNCHANGED hresult
       ELSE /\ hresult' = "False"
            /\ hpc' = "done"
            /\ UNCHANGED <<local_exists, local_size>>
    /\ UNCHANGED <<sftp, game, max_tries, resource_size, total_size_in_bytes, tries,
                   total_downloaded, mode, response, attempts>>

\* downloader.py:47-58: the first request, and the locals of the loop
FirstGet ==
    /\ hpc = "get"
    /\ response' = <<200, resource_size>>
    /\ tries' = 0
    /\ total_downloaded' = 0
    /\ hpc' = "loop"
    /\ UNCHANGED <<sftp, game, max_tries, resource_size, total_size_in_bytes,
                   local_exists, local_size, mode, attempts, hresult>>

\* mutant of MoreTries: <= for <
MoreTries_Inclusive == tries <= max_tries

\* downloader.py:59
MoreTries == tries < max_tries

\* downloader.py:59 and 86-88: the loop test; when it fails the else clause
\* of the while removes the file, and os.remove raises if there is none
LoopTest ==
    /\ hpc = "loop"
    /\ IF MoreTries
       THEN /\ hpc' = "request"
            /\ UNCHANGED <<local_exists, local_size, hresult>>
       ELSE IF local_exists
       THEN /\ local_exists' = FALSE
            /\ local_size' = 0
            /\ hpc' = "exists"
            /\ UNCHANGED hresult
       ELSE /\ hresult' = "FileNotFoundError"
            /\ hpc' = "done"
            /\ UNCHANGED <<local_exists, local_size>>
    /\ UNCHANGED <<sftp, game, max_tries, resource_size, total_size_in_bytes, tries,
                   total_downloaded, mode, response, attempts>>

\* the status codes a server may give to a request for the bytes from
\* filesize on
RangeReplies(filesize) ==
    IF filesize >= resource_size THEN {416, 200} ELSE {206, 200}

\* mutant of Request: the restart after 416 keeps total_downloaded
Request_NoReset ==
    /\ hpc = "request"
    /\ IF tries = 0
       THEN /\ mode' = "wb"
            /\ UNCHANGED <<response, total_downloaded>>
       ELSE \E status \in RangeReplies(local_size) :
            IF status = 416
            THEN /\ mode' = "wb"
                 /\ total_downloaded' = total_downloaded
                 /\ response' = <<200, resource_size>>
            ELSE /\ mode' = "ab"
                 /\ response' = <<status, IF status = 206
                                          THEN resource_size - local_size
                                          ELSE resource_size>>
                 /\ UNCHANGED total_downloaded
    /\ hpc' = "write"
    /\ UNCHANGED <<sftp, game, max_tries, resource_size, total_size_in_bytes, tries,
                   local_exists, local_size, attempts, hresult>>

\* downloader.py:61-73: the open mode and the response of this attempt
Request ==
    /\ hpc = "request"
    /\ IF tries = 0
       THEN /\ mode' = "wb"
            /\ UNCHANGED <<response, total_downloaded>>
       ELSE \E status \in RangeReplies(local_size) :
            IF status = 416
            THEN /\ mode' = "wb"
                 /\ total_downloaded' = 0
                 /\ response' = <<200, resource_size>>
            ELSE /\ mode' = "ab"
                 /\ response' = <<status, IF status = 206
                                          THEN resource_size - local_size
                                          ELSE resource_size>>
                 /\ UNCHANGED total_downloaded
    /\ hpc' = "write"
    /\ UNCHANGED <<sftp, game, max_tries, resource_size, total_size_in_bytes, tries,
                   local_exists, local_size, attempts, hresult>>

\* downloader.py:75-79: the file is opened in the mode chosen and the body
\* written block by block; the body delivers n bytes and ends
Write ==
    /\ hpc = "write"
    /\ \E n \in 0..response[2] :
        /\ local_size' = (IF mode = "wb" THEN 0 ELSE local_size) + n
        /\ total_downloaded' = total_downloaded + n
    /\ local_exists' = TRUE
    /\ attempts' = attempts + 1
    /\ hpc' = "verify"
    /\ UNCHANGED <<sftp, game, max_tries, resource_size, total_size_in_bytes, tries,
                   mode, response, hresult>>

\* downloader.py:82-85
Verify ==
    /\ hpc = "verify"
    /\ IF total_size_in_bytes # 0 /\ total_downloaded # total_size_in_bytes
       THEN /\ tries' = tries + 1
            /\ hpc' = "loop"
       ELSE /\ hpc' = "exists"
            /\ UNCHANGED tries
    /\ UNCHANGED <<sftp, game, max_tries, resource_size, total_size_in_bytes,
                   total_downloaded, local_exists, local_size, mode, response,
                   attempts, hresult>>

\* downloader.py:91-94
ExistsCheck ==
    /\ hpc = "exists"
    /\ hresult' = IF ~local_exists THEN "DownloadFailedException" ELSE "True"
    /\ hpc' = "done"
    /\ UNCHANGED <<sftp, game, max_tries, resource_size, total_size_in_bytes, tries,
                   total_downloaded, local_exists, local_size, mode, response,
                   attempts>>

NextHttp ==
    \/ CheckAlreadyDownloaded \/ FirstGet \/ LoopTest \/ Request \/ Write
    \/ Verify \/ ExistsCheck

SpecHttp == InitHttp /\ [][NextHttp]_vars

\* ------------------------------------------------------------ tic-tac-toe
\* src/games/tic_tac_toe: Game.play with two RandomPlayers.  A cell holds
\* " " (Cell.EMPTY), "X" or "O"; cell i * BoardSize + j is board[i][j].
Index(i, j) == i * BoardSize + j

\* the lines in the order _check_winner looks at them: rows, columns, major
\* diagonal, minor diagonal; each a sequence of cells
Row(i) == [k \in 1..BoardSize |-> Index(i, k - 1)]
Column(j) == [k \in 1..BoardSize |-> Index(k - 1, j)]
MajorDiagonal == [k \in 1..BoardSize |-> Index(k - 1, k - 1)]
MinorDiagonal == [k \in 1..BoardSize |-> Index(k - 1, BoardSize - (k - 1) - 1)]
CheckedLines ==
    [k \in 1..(2 * BoardSize + 2) |->
        IF k <= BoardSize THEN Row(k - 1)
        ELSE IF k <= 2 * BoardSize THEN Column(k - BoardSize - 1)
        ELSE IF k = 2 * BoardSize + 1 THEN MajorDiagonal
        ELSE MinorDiagonal]

\* game.py:22, 27, 38, 41: one piece on the whole line, and not EMPTY
Uniform(line) ==
    /\ \A k \in 1..Len(line) : board[line[k]] = board[line[1]]
    /\ board[line[1]] # " "

\* game.py:19-42: the piece on the first uniform line, "None" if there is none
_check_winner ==
    IF \E k \in 1..Len(CheckedLines) : Uniform(CheckedLines[k])
    THEN LET first == CHOOSE k \in 1..Len(CheckedLines) :
                        /\ Uniform(CheckedLines[k])
                        /\ \A m \in 1..(k - 1) : ~Uniform(CheckedLines[m])
         IN  board[CheckedLines[first][1]]
    ELSE "None"

\* game.py:44-49
_check_draw == \A c \in DOMAIN board : board[c] # " "

\* game.py:61-65: the winner, or whether the board is full
is_game_over ==
    IF _check_winner # "None" THEN _check_winner
    ELSE IF _check_draw THEN "True" ELSE "False"

\* mutant of available_cells: every cell, empty or not
available_cells_All ==
    {Index(i, j) : i \in 0..(BoardSize - 1), j \in 0..(BoardSize - 1)}

\* player.py:23-28
available_cells ==
    {c \in {Index(i, j) : i \in 0..(BoardSize - 1), j \in 0..(BoardSize - 1)} :
        board[c] = " "}

\* game.py:71-72: play() is called on a new game
InitGame ==
    /\ SftpIdle
    /\ HttpIdle
    /\ GameConstructed
    /\ gpc = "test"

\* game.py:73: the loop test; a Cell or True ends the loop
PlayTest ==
    /\ gpc = "test"
    /\ winner' = is_game_over
    /\ gpc' = IF is_game_over = "False" THEN "turn" ELSE "over"
    /\ UNCHANGED <<sftp, http, board, is_x_turn, turn, nmoves>>

\* game.py:74-79 and player.py:22-29: the player whose turn it is picks one
\* of the available cells; random.choice raises on an empty list
GetTurn ==
    /\ gpc = "turn"
    /\ IF available_cells = {}
       THEN /\ gpc' = "raised"
            /\ UNCHANGED turn
       ELSE /\ turn' \in available_cells
            /\ gpc' = "make"
    /\ UNCHANGED <<sftp, http, board, is_x_turn, winner, nmoves>>

\* game.py:51-56 and 80: make_turn(turn, piece), piece from is_x_turn
MakeTurn ==
    /\ gpc = "make"
    /\ LET i == turn \div BoardSize
           j == turn % BoardSize
       IN  board' = [board EXCEPT ![Index(i, j)] = IF is_x_turn THEN "X" ELSE "O"]
    /\ is_x_turn' = ~is_x_turn
    /\ nmoves' = nmoves + 1
    /\ gpc' = "test"
    /\ UNCHANGED <<sftp, http, winner, turn>>

NextGame == PlayTest \/ GetTurn \/ MakeTurn

\* play() runs on: each statement that can be executed eventually is
SpecGame == InitGame /\ [][NextGame]_vars /\ WF_vars(NextGame)

\* ------------------------------------------------------------ properties
RECURSIVE SumSizes(_)
SumSizes(seq) == IF seq = << >> THEN 0 ELSE seq[Len(seq)][2] + SumSizes(SubSeq(seq, 1, Len(seq) - 1))

\* the (offset, size) pairs of seq lie end to end from offset 0
Contiguous(seq) ==
    \A i \in 1..Len(seq) :
        seq[i][1] = (IF i = 1 THEN 0 ELSE seq[i - 1][1] + seq[i - 1][2])

StatusErrors == {"EOFError", "IOError"}

\* C1: whenever download() returns normally, the bytes written to f_out, in
\* order, are the remote file's content, byte for byte, whatever the content
\* and whatever the order in which the responses arrived.
C1_RoundTrip == pc = "done" => f_out = file

\* a download that returned after two chunks arrived in reverse order
C1_Witness ==
    /\ pc = "done"
    /\ f_out = file
    /\ file_size = MaxFileSize
    /\ \E i \in 1..(Len(arrived) - 1) : arrived[i] > arrived[i + 1]

\* C2: the number of read requests issued and not yet resolved,
\* len(requested_chunks), never exceeds DOWNLOAD_MAX_REQUESTS, for every
\* window from 1 up.
C2_InFlightBounded == Cardinality(requested_chunks) <= DOWNLOAD_MAX_REQUESTS

\* the widest window is full and there is more of the file to request
C2_Witness ==
    /\ DOWNLOAD_MAX_REQUESTS = MaxWindow
    /\ Cardinality(requested_chunks) = DOWNLOAD_MAX_REQUESTS
    /\ requested_size < file_size

\* C3: the (offset, size) pairs download() requests start at offset 0, each
\* next offset is the previous offset plus its size, every size is between 1
\* and DOWNLOAD_MAX_CHUNK_SIZE, only the chunk that ends the file is shorter
\* than DOWNLOAD_MAX_CHUNK_SIZE, and over a complete transfer the sizes sum to
\* file_size.
C3_Tiling ==
    /\ Contiguous(issued)
    /\ \A i \in 1..Len(issued) :
        /\ issued[i][2] \in 1..DOWNLOAD_MAX_CHUNK_SIZE
        /\ issued[i][2] < DOWNLOAD_MAX_CHUNK_SIZE =>
               (i = Len(issued) /\ issued[i][1] + issued[i][2] = file_size)
    /\ SumSizes(issued) <= file_size
    /\ pc = "done" => SumSizes(issued) = file_size

\* a complete transfer of several chunks whose last chunk is the short one
C3_Witness ==
    /\ pc = "done"
    /\ Len(issued) >= 2
    /\ issued[Len(issued)][2] < DOWNLOAD_MAX_CHUNK_SIZE
    /\ SumSizes(issued) = file_size

\* C4: in every state of download(), the state in which it has raised
\* included, the bytes written to f_out are the first received_size bytes of
\* the file, and the chunks written lie end to end from offset 0 up to
\* received_size: none twice, none out of order, no gap.
C4_WrittenPrefix ==
    /\ f_out = SubSeq(file, 1, received_size)
    /\ Contiguous(written)
    /\ SumSizes(written) = received_size
    /\ \A i \in 1..Len(written) : written[i][2] >= 1

\* download() has raised with a part of the file written and a later chunk
\* still buffered
C4_Witness ==
    /\ pc = "raised"
    /\ 0 < received_size
    /\ received_size < file_size
    /\ received_chunks # {}

\* C5: received_size <= requested_size <= file_size at every point of
\* download().
C5_CursorOrder == received_size <= requested_size /\ requested_size <= file_size

\* the three are all different and none is 0
C5_Witness == 0 < received_size /\ received_size < requested_size /\ requested_size < file_size

\* C6: with file_size = 0, download() issues no read request, writes no byte
\* and does not wait for a response of the transport.
C6_EmptyFileImmediate ==
    file_size = 0 => (issued = << >> /\ f_out = << >> /\ pc # "read")

C8_FirstErrorWins ==
    (pc = "raised" /\ raised[1] \in StatusErrors) => raised = first_error

\* C9: once an error-status response for a pending request is handled, the
\* request id is no longer a key of requested_chunks.
C9_ErrorRemovesRequest ==
    \A e \in {saved_exception, raised} :
        (e # None /\ e[1] \in StatusErrors) => Lookup(requested_chunks, e[3]) = None

\* C10: the step in which _async_response is handed a response whose request
\* id is no key of requested_chunks, DATA or error status, leaves
\* requested_chunks, received_chunks, the recorded error and the output as
\* they were, and download() does not fail in it.
C10_UnmatchedIgnored ==
    [][unmatched' # unmatched =>
          /\ requested_chunks' = requested_chunks
          /\ received_chunks' = received_chunks
          /\ saved_exception' = saved_exception
          /\ f_out' = f_out
          /\ raised' = raised]_vars

\* C11: handing _async_response a second copy of a DATA response whose
\* request id was already resolved changes nothing of the transfer state
\* (the dicts, saved_exception, the output) and raises no error: the state
\* after handling the response twice is the state after handling it once.
C11_DuplicateIsNoOp ==
    [][dups' # dups =>
        /\ requested_chunks' = requested_chunks
        /\ received_chunks' = received_chunks
        /\ saved_exception' = saved_exception
        /\ raised' = raised
        /\ f_out' = f_out
        /\ received_size' = received_size
        /\ pc' = "check"]_vars

\* a second copy has been handed over while its chunk was still buffered,
\* and the download went on to complete
C11_Witness ==
    /\ dups > 0
    /\ pc = "done"
    /\ \E u \in unmatched : u[2] = "CMD_DATA" /\ \E r \in resolved : r[1] = u[1]

\* the kinds of the exceptions an error status converts to
StatusErrorKinds == {_convert_status(c, 0)[1] : c \in StatusCodes \ {"SFTP_OK"}}

\* C13: after the transfer, download_large_file compares the size of the
\* output file with the remote size read before the transfer; it returns
\* only if they are equal, and if they differ it raises a size-mismatch error
\* whose kind is none of the kinds raised for error-status failures.
C13_SizeMismatchDistinct ==
    /\ lpc = "returned" => Len(f_out) = remote_file_size
    /\ (pc = "done" /\ lpc = "raised") =>
          /\ Len(f_out) # remote_file_size
          /\ lraised[2] = "file size mismatch"
          /\ lraised[1] \notin StatusErrorKinds

\* C14: once cancellation has been signalled (with requests in flight and
\* chunks buffered), the download issues no new read request, does not start
\* another wait for a response, and does not end as a successful transfer.
C14_CancelStops ==
    /\ [][cancel_signalled =>
            /\ issued' = issued
            /\ (pc' = "read" => pc = "read")]_vars
    /\ [](cancel_signalled => lpc # "returned")

\* C15: on every exit path of the transfer (normal completion, an
\* error-status failure, a length-mismatch failure, the internal deadlock
\* error) the output file and the remote file handle opened by
\* download_large_file are closed once control has left the with statement.
C15_SinkReleased ==
    lpc # "with" => (~f_out_open /\ ~f_in_open)

\* download_large_file has been left by the internal deadlock error, with
\* both files closed
C15_Witness ==
    /\ lpc = "raised"
    /\ lraised[1] = "ValueError"
    /\ ~f_out_open
    /\ ~f_in_open

\* C16: read requests are issued in strictly increasing offset order, so no
\* offset is requested twice within one download, whatever order the
\* responses arrive in.
C16_IssuedIncreasing ==
    \A i, j \in 1..Len(issued) : i < j => issued[i][1] < issued[j][1]

\* three or more requests were issued, two chunks arrived in reverse order,
\* and the download completed
C16_Witness ==
    /\ pc = "done"
    /\ Len(issued) >= 3
    /\ \E i \in 1..(Len(arrived) - 1) : arrived[i] > arrived[i + 1]

\* C17 (as amended): the dispatch step issues the next read request exactly
\* when the unresolved requests and the buffered chunks together number
\* fewer than DOWNLOAD_MAX_REQUESTS and requested_size < file_size;
\* otherwise it declines and download() goes on to read a response.
C17_DispatchRule ==
    [][(pc = "dispatch" /\ pc' # pc) =>
        IF /\ Cardinality(requested_chunks) + Cardinality(received_chunks)
                < DOWNLOAD_MAX_REQUESTS
           /\ requested_size < file_size
        THEN pc' = "send"
        ELSE pc' = "read"]_vars

\* the dispatch step has declined with fewer than DOWNLOAD_MAX_REQUESTS
\* requests unresolved and chunks left to request: buffered chunks fill the
\* window
C17_Witness ==
    /\ pc = "read"
    /\ Cardinality(requested_chunks) < DOWNLOAD_MAX_REQUESTS
    /\ requested_chunks # {}
    /\ received_chunks # {}
    /\ Cardinality(requested_chunks) + Cardinality(received_chunks)
          >= DOWNLOAD_MAX_REQUESTS
    /\ requested_size < file_size

\* C17 (as stated): the dispatch step issues the next read request whenever
\* fewer than DOWNLOAD_MAX_REQUESTS requests are unresolved and
\* requested_size < file_size, and declines only otherwise.
C17_AsStated ==
    [][(pc = "dispatch" /\ pc' # pc) =>
        IF /\ Cardinality(requested_chunks) < DOWNLOAD_MAX_REQUESTS
           /\ requested_size < file_size
        THEN pc' = "send"
        ELSE pc' = "read"]_vars

\* C18: every mutation of the transfer state (requested_chunks,
\* received_chunks, saved_exception) is made by the thread running
\* download(), also when other threads use the same SFTP client and read
\* responses from it: a step that changes this state is never a step of
\* the other thread.
C18_SerializedMutations ==
    [][(\/ requested_chunks' # requested_chunks
        \/ received_chunks' # received_chunks
        \/ saved_exception' # saved_exception)
       => (opc' = opc /\ oreads' = oreads)]_vars

\* C19: request ids are unique also on a shared client: no two read requests
\* of the download have the same id, no request of the download has an id
\* another user of the client took, and an id is in _expecting when its
\* packet is sent and for as long as the packet is unanswered.
C19_UniqueIds ==
    /\ \A i, j \in 1..Len(ids) : i # j => ids[i] # ids[j]
    /\ \A i \in 1..Len(ids) : ids[i] \notin foreign
    /\ pc = "send" => request_id \in expecting
    /\ \A w \in wire : w[1] \in expecting

\* another user took a request number between two requests of the download,
\* and both of the download's packets were sent
C19_Witness ==
    /\ Len(ids) >= 2
    /\ Len(issued) >= 2
    /\ \E f \in foreign : ids[1] < f /\ f < ids[2]

C12_CompletesExactly ==
    /\ pc = "done" => (received_size = file_size /\ requested_chunks = {})
    /\ pc = "read" => ~(received_size = file_size /\ requested_chunks = {})

\* C21: with a callback supplied, the drain calls it once per chunk written,
\* in offset order, and the argument of each call is the number of bytes
\* newly written, the chunk's length.
C21_CallbackGetsLength ==
    /\ Len(callback_calls) = Len(written)
    /\ \A i \in 1..Len(callback_calls) : callback_calls[i] = <<"int", written[i][2]>>

\* C23: at every point of download() the unresolved requests and the
\* buffered unwritten chunks together number at most DOWNLOAD_MAX_REQUESTS,
\* whatever order the responses arrive in and whichever thread of a shared
\* client delivers them.
C23_WindowBoundsBuffer ==
    Cardinality(requested_chunks) + Cardinality(received_chunks)
        <= DOWNLOAD_MAX_REQUESTS

\* C24: when responses are delivered only by download()'s own _read_response
\* calls, after every drain the chunks issued with an offset in
\* [received_size, requested_size) are partitioned between requested_chunks
\* and received_chunks: each is in exactly one of the two, neither dict holds
\* anything else, and received_chunks has no entry at offset received_size.
C24_Partition ==
    pc = "test" =>
        LET inrange == {issued[i] : i \in {k \in 1..Len(issued) :
                            /\ issued[k][1] >= received_size
                            /\ issued[k][1] < requested_size}}
            req == {<<e[2], e[3]>> : e \in requested_chunks}
            rec == {<<e[1], e[2]>> : e \in received_chunks}
        IN  /\ req \cup rec = inrange
            /\ req \cap rec = {}
            /\ Cardinality(req) = Cardinality(requested_chunks)
            /\ Cardinality(rec) = Cardinality(received_chunks)
            /\ \A e \in received_chunks : e[1] # received_size

\* after a drain that wrote a chunk, one chunk is still requested and a later
\* one is buffered behind it
C24_Witness ==
    /\ pc = "test"
    /\ received_size > 0
    /\ \E e \in requested_chunks : \E b \in received_chunks :
          e[2] = received_size /\ b[1] > e[2]

\* C25: when responses are delivered only by download()'s own _read_response
\* calls, the deadlock guard never fires: after a drain it is never the case
\* that requested_chunks is empty while received_chunks holds
\* DOWNLOAD_MAX_REQUESTS or more chunks, and download() never raises the
\* 'SFTP communication error' ValueError.
C25_GuardUnreachable ==
    /\ pc = "test" => ~QueueStuck
    /\ raised # None => raised[1] # "ValueError"

\* the guard is evaluated after a drain with the window full and chunks
\* buffered behind a gap
C25_Witness ==
    /\ pc = "test"
    /\ ~Complete
    /\ received_chunks # {}
    /\ Cardinality(requested_chunks) + Cardinality(received_chunks)
          = DOWNLOAD_MAX_REQUESTS

\* C26: every DATA response to a read request of this download finds its
\* entry in requested_chunks, also when another thread of a shared client
\* reads it between the send of the packet and the recording of the request
\* id: no DATA response is dropped as unmatched.
C26_NoDataDropped ==
    \A u \in unmatched : u[2] # "CMD_DATA"

\* C27: for file_size >= 1, whenever download() waits for the next response
\* at least one read request of this download is unresolved:
\* requested_chunks is not empty.
C27_WaitsOnlyInFlight ==
    (file_size >= 1 /\ pc = "read") => requested_chunks # {}

\* C28: after download() has handled a response addressed to one of its
\* pending requests, that request is no longer in requested_chunks or
\* download() raises (at once, or at the _check_exception that follows); no
\* request stays pending that the transport no longer expects a reply for.
C28_HandledIsResolved ==
    [][\A e \in requested_chunks :
        (e[1] \in expecting /\ e[1] \notin expecting')
            => (e \notin requested_chunks' \/ pc' = "raised" \/ saved_exception' # None)]_vars

\* C29: in DownloaderPlugin.download, after every attempt (first write,
\* append-mode resume, restart from scratch after 416) total_downloaded is
\* the size of the local file, so whenever download returns True with a
\* non-zero Content-length the local file has Content-length bytes.
C29_TotalIsFileSize ==
    /\ hpc = "verify" => (local_exists /\ total_downloaded = local_size)
    /\ (hresult = "True" /\ total_size_in_bytes # 0) =>
          (local_exists /\ local_size = total_size_in_bytes)

\* download has returned True after an append-mode resume and a restart from
\* scratch
C29_Witness ==
    /\ hresult = "True"
    /\ total_size_in_bytes # 0
    /\ tries >= 2
    /\ mode = "wb"

\* the eight lines of the 3 by 3 board, as sets of cells
ThreeLines ==
    {{0, 1, 2}, {3, 4, 5}, {6, 7, 8}, {0, 3, 6}, {1, 4, 7}, {2, 5, 8},
     {0, 4, 8}, {2, 4, 6}}
ThreeEqual ==
    \E l \in ThreeLines : \E p \in {"X", "O"} : \A c \in l : board[c] = p
BoardFull == \A c \in 0..8 : board[c] # " "

\* C30: Game.play() with two RandomPlayers terminates after at most 9 moves;
\* the moves alternate X, O, X, ... starting with X, every move fills a cell
\* that was empty and changes no other cell, and no move is made once a row,
\* column or diagonal holds three equal pieces or the board is full.
C30_GameTerminates ==
    /\ [](nmoves <= 9)
    /\ [][nmoves' # nmoves =>
            /\ ~ThreeEqual
            /\ ~BoardFull
            /\ \E c \in 0..8 :
                  /\ board[c] = " "
                  /\ board' = [board EXCEPT ![c] = IF nmoves % 2 = 0 THEN "X" ELSE "O"]]_vars
    /\ <>(gpc = "over")

\* a game has ended with the ninth move, which completed a line
C30_Witness ==
    /\ gpc = "over"
    /\ nmoves = 9
    /\ winner = "X"
    /\ ThreeEqual

\* C22: DownloaderPlugin.download with max_tries >= 1 and a non-zero
\* Content-length makes at most max_tries attempts; it returns True right
\* after the first attempt whose total_downloaded equals Content-length, and
\* when all max_tries attempts ended incomplete the partial file is deleted
\* and DownloadFailedException is raised.
C22_BoundedTries ==
    (max_tries >= 1 /\ total_size_in_bytes # 0) =>
        /\ attempts <= max_tries
        /\ hresult \in {"", "False", "True", "DownloadFailedException"}
        /\ hpc = "exists" => (local_exists <=> total_downloaded = total_size_in_bytes)
        /\ hresult = "True" =>
              /\ total_downloaded = total_size_in_bytes
              /\ attempts = tries + 1
        /\ hresult = "DownloadFailedException" =>
              /\ attempts = max_tries
              /\ tries = max_tries
              /\ total_downloaded # total_size_in_bytes
              /\ ~local_exists

\* every one of two or more attempts ended incomplete, one of them a restart
\* from scratch, and download raised
C22_Witness ==
    /\ total_size_in_bytes # 0
    /\ max_tries >= 2
    /\ attempts = max_tries
    /\ hresult = "DownloadFailedException"
    /\ mode = "wb"

====
